---- MODULE Spec2Model ----
(***************************************************************************)
(* remotesrv: process entry point of the remote content-store server       *)
(* (go/utils/remotesrv/main.go).  The model covers run(), resolveIP(),     *)
(* main() and waitForSignal(): the control task that starts up, spawns the *)
(* serving goroutine, waits for a signal and stops the server; the serving *)
(* goroutine; and the operating system delivering os.Interrupt / os.Kill.  *)
(*                                                                         *)
(* Address strings are sequences of symbols.  "a" stands for any ordinary  *)
(* character (letter, digit, dot), ":" "[" "]" are themselves, and "{{" /  *)
(* "}}" are the two template delimiters taken as one symbol each.          *)
(***************************************************************************)
EXTENDS Integers, Sequences, FiniteSets, TLC

\* Longest address spec enumerated by the resolver specification.
MaxLen == 4
\* Most signals the operating system delivers in one run.
MaxSignals == 3
\* c := make(chan os.Signal, 1)
SigChanCap == 1

Sym == {"a", ":", "[", "]", "{{", "}}"}

RECURSIVE SeqsUpTo(_)
SeqsUpTo(n) ==
  IF n = 0 THEN {<<>>}
  ELSE LET shorter == SeqsUpTo(n - 1)
       IN  shorter \cup {Append(s, c) : s \in {t \in shorter : Len(t) = n - 1}, c \in Sym}

\* Every address spec of at most MaxLen symbols.
AddrSpecs == SeqsUpTo(MaxLen)

\* What the template function {{a}} yields on this host: nothing (no matching
\* interface), an IPv4-like address, or an IPv6-like address with colons.
HostIfValues == {<<>>, <<"a">>, <<"a", ":", "a">>}

\* The values given to --grpc-addr / --http-addr in the lifecycle model:
\* localhost:50051-like, [host]:port, :8080, {{a}}:port, and a bare host.
FlagAddrs ==
  { <<"a", ":", "a">>, <<"[", "a", "]", ":", "a">>, <<":", "a">>,
    <<"{{", "a", "}}", ":", "a">>, <<"a">> }

\* The values given to --dir: not provided, or some directory.
DirValues == {"", "d"}

NoErr == <<>>

\* errors.Wrap(err, msg): the message chain "msg: cause".
Wrap(err, msg) == <<msg>> \o err

(***************************************************************************)
(* String helpers (1-based; 0 means "not found").                          *)
(***************************************************************************)
IndexByte(s, c) ==
  IF \E i \in 1..Len(s) : s[i] = c
  THEN CHOOSE i \in 1..Len(s) : s[i] = c /\ \A j \in 1..(i - 1) : s[j] # c
  ELSE 0

LastIndexByte(s, c) ==
  IF \E i \in 1..Len(s) : s[i] = c
  THEN CHOOSE i \in 1..Len(s) : s[i] = c /\ \A j \in (i + 1)..Len(s) : s[j] # c
  ELSE 0

\* s[from:] with a 1-based first index.
From(s, from) == SubSeq(s, from, Len(s))

(***************************************************************************)
(* template.Parse: text outside {{ }} is copied; an action is valid only   *)
(* when it is exactly {{a}} (a call of a defined function), and expands to *)
(* what the host's network configuration gives; anything else opened by    *)
(* "{{" (unclosed, empty, unknown content) is a parse error.  The host's   *)
(* interface enumeration itself is taken to succeed.                       *)
(***************************************************************************)
RECURSIVE TemplateParse(_, _)
TemplateParse(s, hostIf) ==
  IF s = <<>> THEN [err |-> NoErr, out |-> <<>>]
  ELSE IF Head(s) = "{{"
       THEN IF Len(s) >= 3 /\ s[2] = "a" /\ s[3] = "}}"
            THEN LET rest == TemplateParse(From(s, 4), hostIf)
                 IN  IF rest.err # NoErr THEN rest
                     ELSE [err |-> NoErr, out |-> hostIf \o rest.out]
            ELSE [err |-> <<"unable to parse template">>, out |-> <<>>]
       ELSE LET rest == TemplateParse(Tail(s), hostIf)
            IN  IF rest.err # NoErr THEN rest
                ELSE [err |-> NoErr, out |-> <<Head(s)>> \o rest.out]

\* template.Parse as resolveIP calls it: the expansion above, whose error message
\* quotes the input it was given ("unable to parse template <input>: ...").
SockaddrTemplateParse(addr, hostIf) ==
  LET t == TemplateParse(addr, hostIf)
  IN  [err |-> t.err, out |-> t.out,
       quoted |-> IF t.err # NoErr THEN {addr} ELSE {}]

(***************************************************************************)
(* net.SplitHostPort, statement by statement.                              *)
(***************************************************************************)
AddrErr(why) == [err |-> <<why>>, host |-> <<>>, port |-> <<>>]

SplitTail(hp, host, i, j, k) ==
  IF IndexByte(From(hp, j), "[") > 0 THEN AddrErr("unexpected '[' in address")
  ELSE IF IndexByte(From(hp, k), "]") > 0 THEN AddrErr("unexpected ']' in address")
  ELSE [err |-> NoErr, host |-> host, port |-> From(hp, i + 1)]

SplitHostPort(hp) ==
  LET i == LastIndexByte(hp, ":")
  IN  IF i = 0 THEN AddrErr("missing port in address")
      ELSE IF hp[1] = "["
      THEN LET end == IndexByte(hp, "]")
           IN  IF end = 0 THEN AddrErr("missing ']' in address")
               ELSE IF end = Len(hp) THEN AddrErr("missing port in address")
               ELSE IF end + 1 = i
                    THEN SplitTail(hp, SubSeq(hp, 2, end - 1), i, 2, end + 1)
               ELSE IF hp[end + 1] = ":" THEN AddrErr("too many colons in address")
               ELSE AddrErr("missing port in address")
      ELSE LET host == SubSeq(hp, 1, i - 1)
           IN  IF IndexByte(host, ":") > 0 THEN AddrErr("too many colons in address")
               ELSE SplitTail(hp, host, i, 1, 1)

\* resolveIP rebuilding its result from the split host and port instead of
\* returning the expanded string.
resolveIPRejoined(addr, hostIf) ==
  LET t == SockaddrTemplateParse(addr, hostIf)
  IN  IF t.err # NoErr
      THEN [addr |-> <<>>, err |-> Wrap(t.err, "parse addr"), quoted |-> t.quoted]
      ELSE LET s == SplitHostPort(t.out)
           IN  IF s.err # NoErr
               THEN [addr |-> <<>>, err |-> Wrap(s.err, "split host port"), quoted |-> {}]
               ELSE IF s.host = <<>>
                    THEN [addr |-> <<>>, err |-> <<"host can't be empty">>, quoted |-> {}]
               ELSE [addr |-> s.host \o <<":">> \o s.port, err |-> NoErr, quoted |-> {}]

\* resolveIP without the empty-host check of lines 118-120.
resolveIPNoHostCheck(addr, hostIf) ==
  LET t == SockaddrTemplateParse(addr, hostIf)
  IN  IF t.err # NoErr
      THEN [addr |-> <<>>, err |-> Wrap(t.err, "parse addr"), quoted |-> t.quoted]
      ELSE LET s == SplitHostPort(t.out)
           IN  IF s.err # NoErr
               THEN [addr |-> <<>>, err |-> Wrap(s.err, "split host port"), quoted |-> {}]
               ELSE [addr |-> t.out, err |-> NoErr, quoted |-> {}]

\* resolveIP dropping the error of net.SplitHostPort (lines 114-116).
resolveIPSplitUnchecked(addr, hostIf) ==
  LET t == SockaddrTemplateParse(addr, hostIf)
  IN  IF t.err # NoErr
      THEN [addr |-> <<>>, err |-> Wrap(t.err, "parse addr"), quoted |-> t.quoted]
      ELSE LET s == SplitHostPort(t.out)
           IN  IF s.host = <<>>
               THEN [addr |-> <<>>, err |-> <<"host can't be empty">>, quoted |-> {}]
               ELSE [addr |-> t.out, err |-> NoErr, quoted |-> {}]

\* resolveIP splitting the address as given, and expanding the template after.
resolveIPSplitFirst(addr, hostIf) ==
  LET s == SplitHostPort(addr)
  IN  IF s.err # NoErr
      THEN [addr |-> <<>>, err |-> Wrap(s.err, "split host port"), quoted |-> {}]
      ELSE IF s.host = <<>>
      THEN [addr |-> <<>>, err |-> <<"host can't be empty">>, quoted |-> {}]
      ELSE LET t == SockaddrTemplateParse(addr, hostIf)
           IN  IF t.err # NoErr
               THEN [addr |-> <<>>, err |-> Wrap(t.err, "parse addr"), quoted |-> t.quoted]
               ELSE [addr |-> t.out, err |-> NoErr, quoted |-> {}]

(***************************************************************************)
(* resolveIP(addr) (string, error)                                         *)
(***************************************************************************)
resolveIP(addr, hostIf) ==
  LET t == SockaddrTemplateParse(addr, hostIf)
  IN  IF t.err # NoErr
      THEN [addr |-> <<>>, err |-> Wrap(t.err, "parse addr"), quoted |-> t.quoted]
      ELSE LET s == SplitHostPort(t.out)
           IN  IF s.err # NoErr
               THEN [addr |-> <<>>, err |-> Wrap(s.err, "split host port"), quoted |-> {}]
               ELSE IF s.host = <<>>
                    THEN [addr |-> <<>>, err |-> <<"host can't be empty">>, quoted |-> {}]
               ELSE [addr |-> t.out, err |-> NoErr, quoted |-> {}]

VARIABLES
  \* flags and environment
  dirParam, repoModeParam, grpcAddrParam, httpAddrParam, hostIf, repoValid,
  \* the process
  alive, exitStatus, exitCause, fatalLog,
  \* the control task (main goroutine)
  pc, cwdSet, grpcAddr, httpAddr, runErr, fs, envLoaded, dbCache,
  newServerCalls, serverArgs, listenersCalls, listenersBound,
  chdirCalls, runErrQuoted, storesOpened,
  \* waitForSignal
  notified, sigChan, recvCount,
  \* the server
  serve, serveCalls, stopCalls, gstop,
  \* the operating system
  delivered, sigWhileServing

vars ==
  << dirParam, repoModeParam, grpcAddrParam, httpAddrParam, hostIf, repoValid,
     alive, exitStatus, exitCause, fatalLog,
     pc, cwdSet, grpcAddr, httpAddr, runErr, fs, envLoaded, dbCache,
     newServerCalls, serverArgs, listenersCalls, listenersBound,
     chdirCalls, runErrQuoted, storesOpened,
     notified, sigChan, recvCount,
     serve, serveCalls, stopCalls, gstop,
     delivered, sigWhileServing >>

flagVars == << dirParam, repoModeParam, grpcAddrParam, httpAddrParam, hostIf, repoValid >>
procVars == << alive, exitStatus, exitCause, fatalLog >>
startVars == << cwdSet, grpcAddr, httpAddr, runErr, fs, envLoaded, dbCache,
                newServerCalls, serverArgs, listenersCalls, listenersBound,
                chdirCalls, runErrQuoted, storesOpened >>
waitVars == << notified, sigChan, recvCount >>
serverVars == << serve, serveCalls, stopCalls, gstop >>
osVars == << delivered, sigWhileServing >>

\* A logged fatal message: its fixed text and the error printed after it
\* (NoErr when the message prints none).
NoLog == [text |-> "", err |-> NoErr]

NoArgs == [HttpListenAddr |-> <<>>, GrpcListenAddr |-> <<>>, DBCache |-> "none"]

\* The state after flag.Parse(), with the address flags drawn from the given sets.
InitWith(grpcSet, httpSet) ==
  /\ dirParam \in DirValues
  /\ repoModeParam \in BOOLEAN
  /\ grpcAddrParam \in grpcSet
  /\ httpAddrParam \in httpSet
  /\ hostIf \in HostIfValues
  /\ repoValid \in BOOLEAN
  /\ alive = TRUE
  /\ exitStatus = -1
  /\ exitCause = "none"
  /\ fatalLog = NoLog
  /\ pc = "chdir"
  /\ cwdSet = FALSE
  /\ grpcAddr = <<>>
  /\ httpAddr = <<>>
  /\ runErr = NoErr
  /\ fs = FALSE
  /\ envLoaded = FALSE
  /\ dbCache = "none"
  /\ newServerCalls = 0
  /\ serverArgs = NoArgs
  /\ listenersCalls = 0
  /\ listenersBound = FALSE
  /\ chdirCalls = 0
  /\ runErrQuoted = {}
  /\ storesOpened = 0
  /\ notified = FALSE
  /\ sigChan = <<>>
  /\ recvCount = 0
  /\ serve = "none"
  /\ serveCalls = 0
  /\ stopCalls = 0
  /\ gstop = "no"
  /\ delivered = 0
  /\ sigWhileServing = FALSE

Init == InitWith(FlagAddrs, FlagAddrs)

\* What each fatal site prints: the text of its log call and the error value it
\* appends (lines 47, 67, 74, 92, 96 of run and line 127 of main).
FatalLog(cause) ==
  CASE cause = "chdir" -> [text |-> "failed to chdir to: <dir> error:", err |-> <<"chdir error">>]
    [] cause = "fs" -> [text |-> "could not get cwd path:", err |-> <<"filesys error">>]
    [] cause = "repo" -> [text |-> "repo-mode failed to load repository", err |-> NoErr]
    [] cause = "newServer" -> [text |-> "error creating remotesrv Server:", err |-> <<"NewServer error">>]
    [] cause = "listeners" -> [text |-> "error starting remotesrv Server listeners:", err |-> <<"Listeners error">>]
    [] cause = "error" -> [text |-> "error: ", err |-> runErr]
    [] OTHER -> NoLog

\* log.Fatalln / log.Fatalf: log, then os.Exit(1).
Fatal(cause) ==
  /\ alive' = FALSE
  /\ exitStatus' = 1
  /\ exitCause' = cause
  /\ fatalLog' = FatalLog(cause)
  /\ pc' = "exited"

\* The working-directory step with a failed os.Chdir only logged.
ChdirNotFatal ==
  /\ alive /\ pc = "chdir"
  /\ \/ /\ dirParam # ""
        /\ chdirCalls' = chdirCalls + 1
        /\ cwdSet' \in BOOLEAN
     \/ /\ dirParam = ""
        /\ UNCHANGED << chdirCalls, cwdSet >>
  /\ pc' = "resolveGrpc"
  /\ UNCHANGED << flagVars, procVars, grpcAddr, httpAddr, runErr, fs, envLoaded, dbCache,
                  newServerCalls, serverArgs, listenersCalls, listenersBound,
                  runErrQuoted, storesOpened, waitVars, serverVars, osVars >>

\* run, lines 43-53.
Chdir ==
  /\ alive /\ pc = "chdir"
  /\ \/ /\ dirParam # ""
        /\ chdirCalls' = chdirCalls + 1
        /\ cwdSet' = TRUE
        /\ pc' = "resolveGrpc"
        /\ UNCHANGED procVars
     \/ /\ dirParam # ""
        /\ chdirCalls' = chdirCalls + 1
        /\ Fatal("chdir")
        /\ UNCHANGED cwdSet
     \/ /\ dirParam = ""
        /\ pc' = "resolveGrpc"
        /\ UNCHANGED << chdirCalls, cwdSet, procVars >>
  /\ UNCHANGED << flagVars, grpcAddr, httpAddr, runErr, fs, envLoaded, dbCache,
                  newServerCalls, serverArgs, listenersCalls, listenersBound,
                  runErrQuoted, storesOpened, waitVars, serverVars, osVars >>

\* run, lines 55-58.
ResolveGrpcAddr ==
  /\ alive /\ pc = "resolveGrpc"
  /\ LET r == resolveIP(grpcAddrParam, hostIf)
     IN  /\ grpcAddr' = r.addr
         /\ IF r.err # NoErr
            THEN /\ runErr' = Wrap(r.err, "parse grpc addr")
                 /\ runErrQuoted' = r.quoted
                 /\ pc' = "ret"
            ELSE /\ pc' = "resolveHttp"
                 /\ UNCHANGED << runErr, runErrQuoted >>
  /\ UNCHANGED << flagVars, procVars, cwdSet, httpAddr, fs, envLoaded, dbCache,
                  newServerCalls, serverArgs, listenersCalls, listenersBound,
                  chdirCalls, storesOpened, waitVars, serverVars, osVars >>

\* The HTTP address step with its error check left out: run goes on with "".
ResolveHttpAddrUnchecked ==
  /\ alive /\ pc = "resolveHttp"
  /\ httpAddr' = resolveIP(httpAddrParam, hostIf).addr
  /\ pc' = "fs"
  /\ UNCHANGED << flagVars, procVars, cwdSet, grpcAddr, runErr, fs, envLoaded, dbCache,
                  newServerCalls, serverArgs, listenersCalls, listenersBound,
                  chdirCalls, runErrQuoted, storesOpened, waitVars, serverVars, osVars >>

\* run, lines 60-63.
ResolveHttpAddr ==
  /\ alive /\ pc = "resolveHttp"
  /\ LET r == resolveIP(httpAddrParam, hostIf)
     IN  /\ httpAddr' = r.addr
         /\ IF r.err # NoErr
            THEN /\ runErr' = Wrap(r.err, "parse http addr")
                 /\ runErrQuoted' = r.quoted
                 /\ pc' = "ret"
            ELSE /\ pc' = "fs"
                 /\ UNCHANGED << runErr, runErrQuoted >>
  /\ UNCHANGED << flagVars, procVars, cwdSet, grpcAddr, fs, envLoaded, dbCache,
                  newServerCalls, serverArgs, listenersCalls, listenersBound,
                  chdirCalls, storesOpened, waitVars, serverVars, osVars >>

\* run, lines 65-68: filesys.LocalFilesysWithWorkingDir(".").
LocalFilesys ==
  /\ alive /\ pc = "fs"
  /\ \/ /\ fs' = TRUE
        /\ pc' = "cache"
        /\ UNCHANGED procVars
     \/ /\ Fatal("fs")
        /\ UNCHANGED fs
  /\ UNCHANGED << flagVars, cwdSet, grpcAddr, httpAddr, runErr, envLoaded, dbCache,
                  newServerCalls, serverArgs, listenersCalls, listenersBound,
                  chdirCalls, runErrQuoted, storesOpened, waitVars, serverVars, osVars >>

\* NewLocalCSCache(fs): the lazy, directory-keyed cache; building it opens no
\* store (stores are opened on the first request for each path).
NewLocalCSCache == [kind |-> "lazy", opened |-> 0]

\* The choice of the DBCache with env.Load called before the repo-mode test, in
\* both modes.
SelectCacheAlwaysLoads ==
  /\ alive /\ pc = "cache"
  /\ envLoaded' = TRUE
  /\ \/ /\ repoModeParam
        /\ repoValid
        /\ storesOpened' = storesOpened + 1
        /\ dbCache' = "singleton"
        /\ pc' = "newServer"
        /\ UNCHANGED procVars
     \/ /\ repoModeParam
        /\ ~repoValid
        /\ Fatal("repo")
        /\ UNCHANGED << dbCache, storesOpened >>
     \/ /\ ~repoModeParam
        /\ dbCache' = NewLocalCSCache.kind
        /\ storesOpened' = storesOpened + (IF repoValid THEN 1 ELSE 0) + NewLocalCSCache.opened
        /\ pc' = "newServer"
        /\ UNCHANGED procVars
  /\ UNCHANGED << flagVars, cwdSet, grpcAddr, httpAddr, runErr, fs,
                  newServerCalls, serverArgs, listenersCalls, listenersBound,
                  chdirCalls, runErrQuoted, waitVars, serverVars, osVars >>

\* The choice of the DBCache with the dEnv.Valid() check of lines 73-75 left out.
SelectCacheNoValidCheck ==
  /\ alive /\ pc = "cache"
  /\ \/ /\ repoModeParam
        /\ envLoaded' = TRUE
        /\ storesOpened' = storesOpened + (IF repoValid THEN 1 ELSE 0)
        /\ dbCache' = "singleton"
     \/ /\ ~repoModeParam
        /\ dbCache' = NewLocalCSCache.kind
        /\ storesOpened' = storesOpened + NewLocalCSCache.opened
        /\ UNCHANGED envLoaded
  /\ pc' = "newServer"
  /\ UNCHANGED << flagVars, procVars, cwdSet, grpcAddr, httpAddr, runErr, fs,
                  newServerCalls, serverArgs, listenersCalls, listenersBound,
                  chdirCalls, runErrQuoted, waitVars, serverVars, osVars >>

\* run, lines 70-81: the choice of the DBCache.
SelectCache ==
  /\ alive /\ pc = "cache"
  /\ \/ /\ repoModeParam
        /\ repoValid
        /\ envLoaded' = TRUE
        /\ storesOpened' = storesOpened + 1
        /\ dbCache' = "singleton"
        /\ pc' = "newServer"
        /\ UNCHANGED procVars
     \/ /\ repoModeParam
        /\ ~repoValid
        /\ envLoaded' = TRUE
        /\ Fatal("repo")
        /\ UNCHANGED << dbCache, storesOpened >>
     \/ /\ ~repoModeParam
        /\ dbCache' = NewLocalCSCache.kind
        /\ storesOpened' = storesOpened + NewLocalCSCache.opened
        /\ pc' = "newServer"
        /\ UNCHANGED << envLoaded, procVars >>
  /\ UNCHANGED << flagVars, cwdSet, grpcAddr, httpAddr, runErr, fs,
                  newServerCalls, serverArgs, listenersCalls, listenersBound,
                  chdirCalls, runErrQuoted, waitVars, serverVars, osVars >>

\* Server construction tried again after a failure instead of ending the process.
NewServerRetrying ==
  /\ alive /\ pc = "newServer"
  /\ newServerCalls' = newServerCalls + 1
  /\ serverArgs' = [HttpListenAddr |-> httpAddr, GrpcListenAddr |-> grpcAddr,
                    DBCache |-> dbCache]
  /\ \/ pc' = "listeners"
     \/ pc' = "newServer"
  /\ UNCHANGED << flagVars, procVars, cwdSet, grpcAddr, httpAddr, runErr, fs, envLoaded,
                  dbCache, listenersCalls, listenersBound, chdirCalls, runErrQuoted,
                  storesOpened, waitVars, serverVars, osVars >>

\* run, lines 83-93: remotesrv.NewServer(remotesrv.ServerArgs{...}).
NewServer ==
  /\ alive /\ pc = "newServer"
  /\ newServerCalls' = newServerCalls + 1
  /\ serverArgs' = [HttpListenAddr |-> httpAddr, GrpcListenAddr |-> grpcAddr,
                    DBCache |-> dbCache]
  /\ \/ /\ pc' = "listeners"
        /\ UNCHANGED procVars
     \/ Fatal("newServer")
  /\ UNCHANGED << flagVars, cwdSet, grpcAddr, httpAddr, runErr, fs, envLoaded, dbCache,
                  listenersCalls, listenersBound, chdirCalls, runErrQuoted, storesOpened,
                  waitVars, serverVars, osVars >>

\* run, lines 94-97: server.Listeners().
Listeners ==
  /\ alive /\ pc = "listeners"
  /\ listenersCalls' = listenersCalls + 1
  /\ \/ /\ listenersBound' = TRUE
        /\ pc' = "go"
        /\ UNCHANGED procVars
     \/ /\ Fatal("listeners")
        /\ UNCHANGED listenersBound
  /\ UNCHANGED << flagVars, cwdSet, grpcAddr, httpAddr, runErr, fs, envLoaded, dbCache,
                  newServerCalls, serverArgs, chdirCalls, runErrQuoted, storesOpened,
                  waitVars, serverVars, osVars >>

\* server.Serve(listeners) called on the control task itself, without go: run
\* is held inside Serve.
GoServeInline ==
  /\ alive /\ pc = "go"
  /\ serve' = "serving"
  /\ serveCalls' = serveCalls + 1
  /\ pc' = "inServe"
  /\ UNCHANGED << flagVars, procVars, startVars, waitVars, stopCalls, gstop, osVars >>

\* run, lines 98-100: the go statement creates the serving goroutine and returns.
GoServe ==
  /\ alive /\ pc = "go"
  /\ serve' = "spawned"
  /\ pc' = "wait"
  /\ UNCHANGED << flagVars, procVars, startVars, waitVars, serveCalls, stopCalls, gstop,
                  osVars >>

\* The serving goroutine, line 99: server.Serve(listeners) is called ...
Serve ==
  /\ alive /\ serve = "spawned"
  /\ serve' = "serving"
  /\ serveCalls' = serveCalls + 1
  /\ UNCHANGED << flagVars, procVars, pc, startVars, waitVars, stopCalls, gstop, osVars >>

\* The serving goroutine ending the process when Serve returns (a log.Fatal on
\* its result).
ServeReturnFatal ==
  /\ alive /\ serve = "serving"
  /\ serve' = "returned"
  /\ Fatal("serve")
  /\ UNCHANGED << flagVars, startVars, waitVars, serveCalls, stopCalls, gstop, osVars >>

\* ... and returns, on its own or because the server was stopped; nothing reads
\* its result.
ServeReturn ==
  /\ alive /\ serve = "serving"
  /\ serve' = "returned"
  /\ UNCHANGED << flagVars, procVars, pc, startVars, waitVars, serveCalls, stopCalls,
                  gstop, osVars >>

\* waitForSignal, lines 132-133: make(chan os.Signal, 1); signal.Notify(c, ...).
SignalNotify ==
  /\ alive /\ pc = "wait"
  /\ notified' = TRUE
  /\ sigChan' = <<>>
  /\ pc' = "recv"
  /\ UNCHANGED << flagVars, procVars, startVars, recvCount, serverVars, osVars >>

\* waitForSignal returning without a receive (a select with a default case).
SignalRecvNoWait ==
  /\ alive /\ pc = "recv"
  /\ pc' = "stop"
  /\ UNCHANGED << flagVars, procVars, startVars, waitVars, serverVars, osVars >>

\* waitForSignal, line 134: <-c blocks until the channel holds a signal.
SignalRecv ==
  /\ alive /\ pc = "recv"
  /\ sigChan # <<>>
  /\ sigChan' = Tail(sigChan)
  /\ recvCount' = recvCount + 1
  /\ pc' = "stop"
  /\ UNCHANGED << flagVars, procVars, startVars, notified, serverVars, osVars >>

\* run, line 102: server.GracefulStop() is invoked ...
GracefulStop ==
  /\ alive /\ pc = "stop"
  /\ stopCalls' = stopCalls + 1
  /\ gstop' = "running"
  /\ pc' = "stopping"
  /\ UNCHANGED << flagVars, procVars, startVars, waitVars, serve, serveCalls, osVars >>

\* ... and returns once in-flight work is done; run then returns nil (line 104).
GracefulStopReturn ==
  /\ alive /\ pc = "stopping"
  /\ gstop' = "returned"
  /\ pc' = "ret"
  /\ UNCHANGED << flagVars, procVars, startVars, waitVars, serve, serveCalls, stopCalls,
                  osVars >>

\* main dropping the error of run: the process always exits with status 0.
MainReturnIgnoringErr ==
  /\ alive /\ pc = "ret"
  /\ alive' = FALSE
  /\ exitStatus' = 0
  /\ exitCause' = "normal"
  /\ pc' = "exited"
  /\ UNCHANGED << fatalLog, flagVars, startVars, waitVars, serverVars, osVars >>

\* main, lines 125-129: log.Fatalln on an error of run, else return (exit status 0).
MainReturn ==
  /\ alive /\ pc = "ret"
  /\ IF runErr # NoErr
     THEN Fatal("error")
     ELSE /\ alive' = FALSE
          /\ exitStatus' = 0
          /\ exitCause' = "normal"
          /\ pc' = "exited"
          /\ UNCHANGED fatalLog
  /\ UNCHANGED << flagVars, startVars, waitVars, serverVars, osVars >>

\* The operating system ends the process on a signal nothing catches.
KilledBy(status) ==
  /\ alive' = FALSE
  /\ exitStatus' = status
  /\ exitCause' = "signal"
  /\ pc' = "exited"
  /\ UNCHANGED fatalLog

\* os.Interrupt is delivered.  Once signal.Notify has registered c (line 133) the
\* os/signal package sends it to c without blocking: buffered when c has room,
\* dropped when c is full.  Before that the Go runtime's default applies and the
\* process exits on the signal.
DeliverInterrupt ==
  /\ alive /\ delivered < MaxSignals
  /\ delivered' = delivered + 1
  /\ sigWhileServing' = (sigWhileServing \/ pc = "recv")
  /\ \/ /\ notified
        /\ Len(sigChan) < SigChanCap
        /\ sigChan' = Append(sigChan, "interrupt")
        /\ UNCHANGED << procVars, pc >>
     \/ /\ notified
        /\ Len(sigChan) >= SigChanCap
        /\ UNCHANGED << sigChan, procVars, pc >>
     \/ /\ ~notified
        /\ KilledBy(130)
        /\ UNCHANGED sigChan
  /\ UNCHANGED << flagVars, startVars, notified, recvCount, serverVars >>

\* os.Kill is delivered.  It is listed in signal.Notify (line 133), but SIGKILL
\* can be neither caught nor ignored: the process ends at once, whatever it was
\* doing, and nothing is sent to c.
DeliverKill ==
  /\ alive /\ delivered < MaxSignals
  /\ delivered' = delivered + 1
  /\ sigWhileServing' = (sigWhileServing \/ pc = "recv")
  /\ KilledBy(137)
  /\ UNCHANGED << flagVars, startVars, waitVars, serverVars >>

Startup ==
  \/ Chdir \/ ResolveGrpcAddr \/ ResolveHttpAddr \/ LocalFilesys \/ SelectCache
  \/ NewServer \/ Listeners \/ GoServe

Control == Startup \/ SignalNotify \/ SignalRecv \/ GracefulStop \/ GracefulStopReturn \/ MainReturn

Next == Control \/ Serve \/ ServeReturn \/ DeliverInterrupt \/ DeliverKill

Spec == Init /\ [][Next]_vars

\* The control task is a runnable goroutine while it stands at the go statement
\* or at the start of waitForSignal, and the Go scheduler runs it.  Nothing is
\* assumed of the serving goroutine or of signal delivery.
FairSpec == Spec /\ WF_vars(GoServe) /\ WF_vars(SignalNotify)

(***************************************************************************)
(* The resolver on its own: run up to the first resolveIP call, with the   *)
(* --grpc-addr flag ranging over every address spec of at most MaxLen      *)
(* symbols.                                                                *)
(***************************************************************************)
InitResolve == InitWith(AddrSpecs, {<<"a", ":", "a">>})

NextResolve == Chdir \/ ResolveGrpcAddr

SpecResolve == InitResolve /\ [][NextResolve]_vars

(***************************************************************************)
(* Properties.                                                             *)
(***************************************************************************)
Has(s, c) == \E i \in 1..Len(s) : s[i] = c

\* No colon and no bracket: a port, or a host written without brackets.
Plain(s) == ~Has(s, ":") /\ ~Has(s, "[") /\ ~Has(s, "]")

NoTemplateSyntax(s) == ~Has(s, "{{")

\* host:port or [host]:port with a non-empty host, described by its shape alone.
ValidHostPortForm(s) ==
  \E i \in 1..Len(s) :
    /\ s[i] = ":"
    /\ Plain(From(s, i + 1))
    /\ LET host == SubSeq(s, 1, i - 1)
       IN  \/ Len(host) >= 1 /\ Plain(host)
           \/ /\ Len(host) >= 3
              /\ host[1] = "[" /\ host[Len(host)] = "]"
              /\ LET inner == SubSeq(host, 2, Len(host) - 1)
                 IN  ~Has(inner, "[") /\ ~Has(inner, "]")

\* :port or []:port, a host:port string whose host is empty.
EmptyHostForm(s) ==
  \/ Len(s) >= 1 /\ s[1] = ":" /\ Plain(From(s, 2))
  \/ Len(s) >= 3 /\ s[1] = "[" /\ s[2] = "]" /\ s[3] = ":" /\ Plain(From(s, 4))

\* The first resolveIP call of run has returned.
GrpcResolved == pc \in {"resolveHttp", "ret"}

FatalCauses == {"chdir", "error", "fs", "repo", "newServer", "listeners"}

\* C1: graceful stop is never invoked before server.Serve has started, and
\* server.Serve is never started once graceful stop has begun.
C1_StopOnlyAfterServe ==
  [][ /\ (stopCalls' > stopCalls => serveCalls > 0)
      /\ (serveCalls' > serveCalls => stopCalls = 0) ]_vars

\* C2: a process that ends because of a termination signal (killed by it, or
\* leaving through the signal-driven shutdown) has invoked server.GracefulStop.
C2_SignalExitAfterStop ==
  (~alive /\ exitCause \in {"signal", "normal"}) => stopCalls > 0

\* C3: once a termination signal has been delivered while the controller is
\* Serving (registered and blocked in waitForSignal), the process ends only
\* through graceful stop: when it has ended, GracefulStop has returned and the
\* exit status is zero; and the controller never leaves Stopping for an
\* earlier state.
C3_SignalWhileServingExitsZero ==
  /\ (sigWhileServing /\ ~alive) => (gstop = "returned" /\ exitStatus = 0)
  /\ gstop # "no" => pc \in {"stopping", "ret", "exited"}

\* C4: whenever server.GracefulStop has been invoked (or is about to be), the
\* control task has received a signal from the channel and the operating system
\* has delivered one; nothing else leads to graceful stop.
C4_StopOnlyOnSignal ==
  (stopCalls > 0 \/ gstop # "no" \/ pc \in {"stop", "stopping"})
    => (recvCount = 1 /\ delivered >= 1)

C4_Witness == stopCalls = 1 /\ recvCount = 1 /\ gstop = "running"

\* C5: the control task receives one signal at most, graceful stop is invoked
\* once at most, and a signal delivered while Stopping changes nothing: the
\* graceful stop in progress goes on and the process stays alive.
C5_OneSignalConsumed ==
  [][ /\ recvCount' <= 1
      /\ stopCalls' <= 1
      /\ (pc = "stopping" /\ delivered' # delivered)
           => (pc' = pc /\ alive' = alive /\ gstop' = gstop
               /\ stopCalls' = stopCalls /\ recvCount' = recvCount) ]_vars

\* C6: in repo-mode with an invalid repository no cache strategy is built, the
\* server is never constructed, no listener is bound and Serve never starts;
\* once the repository has been loaded the process has ended fatally.
C6_InvalidRepoFatal ==
  (repoModeParam /\ ~repoValid)
    => /\ dbCache = "none"
       /\ newServerCalls = 0
       /\ listenersCalls = 0 /\ ~listenersBound
       /\ serve = "none" /\ serveCalls = 0
       /\ envLoaded => (~alive /\ exitCause = "repo" /\ exitStatus = 1)
       /\ ~alive => exitStatus # 0

C6_Witness == repoModeParam /\ ~repoValid /\ envLoaded /\ exitCause = "repo"

\* C7: every fatal condition ends the process with a non-zero status without
\* serving ever having started, and status zero comes only after graceful stop
\* has returned.
C7_FatalExitNonZero ==
  /\ exitCause \in FatalCauses
       => /\ ~alive /\ exitStatus # 0
          /\ serve = "none" /\ serveCalls = 0 /\ ~notified
  /\ (resolveIP(grpcAddrParam, hostIf).err # NoErr
        \/ resolveIP(httpAddrParam, hostIf).err # NoErr
        \/ (repoModeParam /\ ~repoValid))
       => /\ serve = "none" /\ serveCalls = 0
          /\ ~alive => exitStatus # 0
  /\ (~alive /\ exitStatus = 0) => gstop = "returned"

C7_Witness == ~alive /\ exitCause = "error" /\ exitStatus = 1 /\ cwdSet

\* C8: the server is constructed only after both addresses resolved; when either
\* resolution fails nothing after it runs (no filesystem, no repository load, no
\* server, no listener) and run returns an error; NewServer gets exactly the two
\* resolved values.
C8_ServerAfterBothResolved ==
  LET g == resolveIP(grpcAddrParam, hostIf)
      h == resolveIP(httpAddrParam, hostIf)
  IN  /\ (g.err # NoErr \/ h.err # NoErr)
           => /\ ~fs /\ ~envLoaded /\ dbCache = "none"
              /\ newServerCalls = 0 /\ listenersCalls = 0 /\ ~listenersBound
              /\ pc \in {"chdir", "resolveGrpc", "resolveHttp", "ret", "exited"}
              /\ pc = "ret" => runErr # NoErr
      /\ newServerCalls > 0
           => /\ g.err = NoErr /\ h.err = NoErr
              /\ serverArgs.GrpcListenAddr = g.addr
              /\ serverArgs.HttpListenAddr = h.addr

C8_Witness ==
  /\ newServerCalls = 1
  /\ serverArgs.GrpcListenAddr # serverArgs.HttpListenAddr
  /\ serverArgs.GrpcListenAddr = <<"[", "a", "]", ":", "a">>

C10_EmptyHostRejected ==
  GrpcResolved
    => /\ LET t == TemplateParse(grpcAddrParam, hostIf)
          IN  (t.err = NoErr /\ EmptyHostForm(t.out))
                => /\ pc = "ret"
                   /\ runErr = <<"parse grpc addr", "host can't be empty">>
                   /\ grpcAddr = <<>>
       /\ runErr = NoErr
            => (grpcAddr # <<>> /\ grpcAddr[1] # ":" /\ ~EmptyHostForm(grpcAddr))

C10_Witness ==
  /\ GrpcResolved
  /\ Has(grpcAddrParam, "{{")
  /\ TemplateParse(grpcAddrParam, hostIf).out = <<":", "a">>
  /\ runErr = <<"parse grpc addr", "host can't be empty">>

\* host:port, [host]:port, :port or []:port: every shape that splits into a host
\* and a port; anything else is malformed.
WellFormedHostPort(s) == ValidHostPortForm(s) \/ EmptyHostForm(s)

SplitReasons ==
  { "missing port in address", "too many colons in address", "missing ']' in address",
    "unexpected '[' in address", "unexpected ']' in address" }

\* C11: an address spec whose expansion is not of host:port shape fails with the
\* address-format error (the wrapped net.SplitHostPort error, which is neither
\* the template error nor the empty-host error) and yields no address; and only
\* such specs get that error.
C11_MalformedAddrRejected ==
  GrpcResolved
    => LET t == TemplateParse(grpcAddrParam, hostIf)
           formatErr == Len(runErr) = 3 /\ runErr[1] = "parse grpc addr"
                        /\ runErr[2] = "split host port" /\ runErr[3] \in SplitReasons
       IN  /\ (t.err = NoErr /\ ~WellFormedHostPort(t.out))
                => (pc = "ret" /\ formatErr /\ grpcAddr = <<>> /\ runErrQuoted = {})
           /\ formatErr => (t.err = NoErr /\ ~WellFormedHostPort(t.out))

C11_Witness ==
  /\ GrpcResolved
  /\ Has(grpcAddrParam, "{{")
  /\ TemplateParse(grpcAddrParam, hostIf).out = <<"a", ":", "a", ":">>
  /\ runErr = <<"parse grpc addr", "split host port", "too many colons in address">>
  /\ grpcAddr = <<>>

C13_FatalMessageHasCause ==
  (~alive /\ exitCause \in FatalCauses)
    => (fatalLog.text # "" /\ fatalLog.err # NoErr)

\* C14: without repo-mode the lazy strategy is built, env.Load is never called
\* and no store is opened during startup; in repo-mode the strategy, once
\* chosen, is the Singleton around the one store opened by env.Load; the server
\* gets the one strategy chosen.
C14_CacheSelection ==
  /\ ~repoModeParam
       => (~envLoaded /\ storesOpened = 0 /\ dbCache \in {"none", "lazy"})
  /\ repoModeParam
       => /\ dbCache \in {"none", "singleton"}
          /\ storesOpened <= 1
          /\ dbCache = "singleton" => (envLoaded /\ repoValid /\ storesOpened = 1)
  /\ newServerCalls > 0
       => (dbCache # "none" /\ serverArgs.DBCache = dbCache)

C14_Witness ==
  /\ ~repoModeParam /\ dbCache = "lazy" /\ ~envLoaded /\ storesOpened = 0
  /\ newServerCalls = 1

\* C15: the go statement takes the control task straight on to waitForSignal:
\* whenever the serving goroutine exists the control task is at or past
\* waitForSignal, and from the go statement it reaches the receive of
\* waitForSignal (unless the process is ended first) with no step of the serving
\* goroutine needed.
C15_ControlNotBlockedByServe ==
  /\ []((alive /\ serve # "none") => pc \in {"wait", "recv", "stop", "stopping", "ret"})
  /\ ((pc = "go") ~> (pc = "recv" \/ ~alive))

C15_Witness == alive /\ pc = "recv" /\ serve = "spawned" /\ serveCalls = 0

\* C16: NewServer and Listeners are each called once at most; a failure of
\* either ends the process at once, with Listeners never called after a failed
\* NewServer and Serve never started after a failed Listeners.
C16_NoRetry ==
  /\ newServerCalls <= 1 /\ listenersCalls <= 1
  /\ listenersCalls > 0 => newServerCalls = 1
  /\ exitCause = "newServer"
       => (~alive /\ exitStatus = 1 /\ newServerCalls = 1 /\ listenersCalls = 0
           /\ ~listenersBound /\ serve = "none" /\ serveCalls = 0)
  /\ exitCause = "listeners"
       => (~alive /\ exitStatus = 1 /\ listenersCalls = 1 /\ ~listenersBound
           /\ serve = "none" /\ serveCalls = 0)

C16_Witness ==
  exitCause = "listeners" /\ newServerCalls = 1 /\ listenersCalls = 1 /\ serve = "none"

\* Some startup step after the working-directory step has run.
LaterStepRan ==
  grpcAddr # <<>> \/ httpAddr # <<>> \/ runErr # NoErr \/ fs \/ envLoaded
    \/ dbCache # "none" \/ newServerCalls > 0 \/ listenersCalls > 0 \/ serve # "none"

\* C17: with --dir given, os.Chdir is called once, before every other startup
\* step, and its failure ends the process before any of them; with --dir empty
\* no directory change is attempted.
C17_ChdirFirst ==
  /\ pc = "chdir" => ~LaterStepRan
  /\ dirParam # ""
       => (chdirCalls <= 1 /\ (LaterStepRan => (chdirCalls = 1 /\ cwdSet)))
  /\ exitCause = "chdir"
       => (dirParam # "" /\ ~alive /\ exitStatus = 1 /\ ~cwdSet /\ ~LaterStepRan)
  /\ dirParam = "" => (chdirCalls = 0 /\ ~cwdSet /\ exitCause # "chdir")

C17_Witness == dirParam # "" /\ exitCause = "chdir" /\ chdirCalls = 1

\* C18: when server.Serve has returned and no signal has been delivered, the
\* process is alive, graceful stop has not been invoked, and the control task is
\* in waitForSignal with its receive blocked.
C18_ServeOutcomeIgnored ==
  (serve = "returned" /\ delivered = 0)
    => /\ alive /\ exitCause = "none"
       /\ stopCalls = 0 /\ gstop = "no" /\ recvCount = 0
       /\ pc \in {"wait", "recv"}
       /\ ~ENABLED SignalRecv

C18_Witness == serve = "returned" /\ delivered = 0 /\ pc = "recv" /\ alive

\* C19: a termination signal delivered once signal.Notify has registered the
\* channel, and before the control task has received from it, is not lost: the
\* process lives on and the channel holds a signal for the receive.
C19_SignalAfterNotifyBuffered ==
  [][ (alive /\ notified /\ pc = "recv" /\ delivered' = delivered + 1)
        => (alive' /\ sigChan' # <<>>) ]_vars
====
